---- MODULE Spec2Model ----
(***************************************************************************)
(* Model of aconex_mcp.py: the process-wide access-token cache, the        *)
(* project-id resolver, the response normaliser and the five handlers that *)
(* call _get_access_token.  All handlers are coroutines on one event loop: *)
(* a handler runs atomically up to the only await it contains (the POST to *)
(* the OAuth token endpoint inside _get_access_token), and again from the  *)
(* answer to that POST up to its response (requests.get is a blocking call *)
(* and never yields to another coroutine).                                 *)
(*                                                                         *)
(* Time is counted in whole seconds.  Text values are modelled by samples: *)
(* a header value is a sequence of chunks, lower-casing maps each chunk,   *)
(* and the substring test is containment of a chunk sequence.              *)
(***************************************************************************)
EXTENDS Integers, Sequences, FiniteSets, Bags

VARIABLES
    DEFAULT_PROJECT_ID,    \* os.getenv("ACONEX_DEFAULT_PROJECT_ID"): None, "" or an id
    ACONEX_CLIENT_ID,      \* os.getenv("ACONEX_CLIENT_ID", "")
    ACONEX_CLIENT_SECRET,  \* os.getenv("ACONEX_CLIENT_SECRET", "")
    _TOKEN,                \* the cache: [value, exp]
    clock,                 \* what time() returns
    calls,                 \* the bag of handlers suspended at the await of line 89
    issued,                \* how many tokens the upstream has issued (history)
    lastRefresh,           \* the refresh that completed last (history)
    validatedAt,           \* the last read of line 77-78 that accepted or replaced the cache (history)
    ev                     \* what the last step did and returned (history)

vars == << DEFAULT_PROJECT_ID, ACONEX_CLIENT_ID, ACONEX_CLIENT_SECRET,
           _TOKEN, clock, calls, issued, lastRefresh, validatedAt, ev >>

----------------------------------------------------------------------------
(* Bounds of the model *)

NumCalls == 2        \* requests that can be in flight at once
MaxTokens == 2       \* tokens the upstream issues in one behaviour
MaxTicks == 1        \* clock advances in one behaviour
StartTime == 1000    \* time() at process start

(* Program constants *)

SafetyMargin == 60         \* line 78
DefaultExpiresIn == 1800   \* line 103

----------------------------------------------------------------------------
(* Python values *)

None == "None"
Falsy(x) == x = None \/ x = ""        \* `not x` for an Optional[str]

TokenNames == << "tokA", "tokB", "tokC", "tokD", "tokE" >>

TickSteps == {1}                      \* seconds by which the clock advances
TicksUsed == clock - StartTime

----------------------------------------------------------------------------
(* Header values and bodies of upstream answers *)

Lower(ch) ==                          \* str.lower() on one chunk
    CASE ch = "Application/JSON" -> "application/json"
      [] ch = "TEXT/XML"         -> "text/xml"
      [] OTHER                   -> ch

lower(s) == [i \in DOMAIN s |-> Lower(s[i])]

Contains(needle, hay) ==              \* `needle in hay`
    \E i \in 0..(Len(hay) - Len(needle)) :
        \A j \in 1..Len(needle) : hay[i + j] = needle[j]

Absent == [has |-> FALSE, v |-> << >>]            \* headers.get(...) is None
Hdr(s) == [has |-> TRUE, v |-> s]
OrEmpty(h) == IF h.has /\ h.v # << >> THEN h.v ELSE << >>   \* `h or ""`

ContentTypes ==
    { Absent,
      Hdr(<< >>),
      Hdr(<< "application/json" >>),
      Hdr(<< "Application/JSON", "; charset=utf-8" >>),
      Hdr(<< "text/html", "; x=", "application/json" >>),
      Hdr(<< "text/xml" >>),
      Hdr(<< "TEXT/XML" >>),
      Hdr(<< "text/plain" >>) }

Bodies == { "{\"a\":1}", "<root><a>1</a></root>", "oops", "" }

Parsed(v) == [ok |-> TRUE, val |-> v]
ParseFails == [ok |-> FALSE, val |-> [raw |-> ""]]       \* the parser raises
json_loads(text) ==                   \* resp.json()
    IF text = "{\"a\":1}" THEN Parsed([a |-> 1]) ELSE ParseFails
xmltodict_parse(text) ==              \* xmltodict.parse(resp.text)
    IF text = "<root><a>1</a></root>" THEN Parsed([root |-> [a |-> "1"]]) ELSE ParseFails

NormalizerInputs ==                   \* every header with every body
    [status : {200, 201, 404, 500}, ctype : ContentTypes, disp : {Absent}, text : Bodies]
UpstreamResponses ==                  \* what requests.get returns to a JSON handler
    { r \in NormalizerInputs :
        \/ r.status = 200 /\ r.ctype = Hdr(<< "application/json" >>) /\ r.text = "{\"a\":1}"
        \/ r.status = 404 /\ r.ctype = Hdr(<< "text/xml" >>)
                          /\ r.text = "<root><a>1</a></root>"
        \/ r.status = 404 /\ r.ctype = Absent /\ r.text = "oops" }
DownloadResponses ==                  \* what requests.get returns to download_file
    { [status |-> 200, ctype |-> Absent,
       disp |-> Hdr(<< "attachment; ", "filename=", "\"doc123.pdf\"" >>), text |-> "oops"],
      [status |-> 404, ctype |-> Hdr(<< "text/plain" >>), disp |-> Absent, text |-> "oops"] }
NoResponse == [status |-> 0, ctype |-> Absent, disp |-> Absent, text |-> ""]

----------------------------------------------------------------------------
(* Helpers, lines 50-70 *)

Ok(v) == [ok |-> TRUE, val |-> v, status |-> 0]
Raise(code) == [ok |-> FALSE, val |-> None, status |-> code]   \* HTTPException(code)

\* Variant: the configured default takes precedence over the parameter.
_effective_project_id_default_first(pid) ==
    IF ~Falsy(DEFAULT_PROJECT_ID) THEN Ok(DEFAULT_PROJECT_ID)
    ELSE IF ~Falsy(pid) THEN Ok(pid)
    ELSE Raise(400)

_effective_project_id(pid) ==
    IF ~Falsy(pid) THEN Ok(pid)
    ELSE IF ~Falsy(DEFAULT_PROJECT_ID) THEN Ok(DEFAULT_PROJECT_ID)
    ELSE Raise(400)

JSONResponse(data, code) == [cls |-> "JSONResponse", status |-> code, data |-> data]
PlainTextResponse(text, code) ==
    [cls |-> "PlainTextResponse", status |-> code, data |-> [text |-> text]]

\* Variant: the Content-Type is matched without lower-casing it.
_as_json_case_sensitive(resp) ==
    LET ctype == OrEmpty(resp.ctype)
    IN  IF Contains(<< "application/json" >>, ctype)
        THEN IF json_loads(resp.text).ok
             THEN JSONResponse(json_loads(resp.text).val, resp.status)
             ELSE JSONResponse([raw |-> resp.text], resp.status)
        ELSE IF xmltodict_parse(resp.text).ok
             THEN JSONResponse(xmltodict_parse(resp.text).val, resp.status)
             ELSE PlainTextResponse(resp.text, resp.status)

_as_json(resp) ==
    LET ctype == lower(OrEmpty(resp.ctype))
    IN  IF Contains(<< "application/json" >>, ctype)
        THEN IF json_loads(resp.text).ok
             THEN JSONResponse(json_loads(resp.text).val, resp.status)
             ELSE JSONResponse([raw |-> resp.text], resp.status)
        ELSE IF xmltodict_parse(resp.text).ok
             THEN JSONResponse(xmltodict_parse(resp.text).val, resp.status)
             ELSE PlainTextResponse(resp.text, resp.status)

----------------------------------------------------------------------------
(* Answers of the OAuth token endpoint *)

NoField == [t |-> "absent", v |-> 0]  \* the key is not in the JSON object
ExpiresInSamples ==
    { NoField,
      [t |-> "int", v |-> 61],        \* 61
      [t |-> "int", v |-> 0],         \* 0
      [t |-> "float", v |-> 619],     \* 61.9, in tenths
      [t |-> "null", v |-> 0] }       \* null

int(x) ==                             \* int(): truncates a float, raises on None
    CASE x.t = "int"   -> Ok(x.v)
      [] x.t = "float" -> Ok(IF x.v >= 0 THEN x.v \div 10 ELSE -((-x.v) \div 10))
      [] OTHER         -> Raise(500)

Get(field, default) == IF field.t = "absent" THEN default ELSE field   \* dict.get

TokenResponses(fresh) ==
    \* a non-200 answer; a 200 answer whose body is no JSON; a 200 JSON object
    \* without access_token, with an empty one, or with a new token
    { [status |-> 401, json |-> FALSE, access |-> None, expires_in |-> NoField],
      [status |-> 200, json |-> FALSE, access |-> None, expires_in |-> NoField],
      [status |-> 200, json |-> TRUE, access |-> None, expires_in |-> NoField],
      [status |-> 200, json |-> TRUE, access |-> "", expires_in |-> NoField] }
    \cup { [status |-> 200, json |-> TRUE, access |-> fresh, expires_in |-> e] :
             e \in ExpiresInSamples }
NoTokenResponse == [status |-> 0, json |-> FALSE, access |-> None, expires_in |-> NoField]

----------------------------------------------------------------------------
(* The token cache, lines 73-106 *)

\* Variant: the margin is taken in minutes.
CacheValid_minutes(now) ==
    ~Falsy(_TOKEN.value) /\ (_TOKEN.exp - now) > SafetyMargin * 60

\* Variant: the difference is taken the wrong way round.
CacheValid_reversed(now) ==
    ~Falsy(_TOKEN.value) /\ (now - _TOKEN.exp) < SafetyMargin

CacheValid(now) ==                    \* line 78
    ~Falsy(_TOKEN.value) /\ (_TOKEN.exp - now) > SafetyMargin

\* _get_access_token from its entry to its first return, raise or await.
_get_access_token(now) ==
    IF CacheValid(now)
    THEN [k |-> "return", token |-> _TOKEN.value, status |-> 0]
    ELSE IF Falsy(ACONEX_CLIENT_ID) \/ Falsy(ACONEX_CLIENT_SECRET)
    THEN [k |-> "raise", token |-> None, status |-> 500]
    ELSE [k |-> "await", token |-> None, status |-> 0]

\* Variant: the expiry counts from the time the answer arrived.
NewToken_late_clock(access, now, expires_in) ==
    [value |-> access, exp |-> clock + expires_in]

\* Variant: a refresh never shortens the expiry already cached.
NewToken_keep_longer(access, now, expires_in) ==
    [value |-> access,
     exp |-> IF _TOKEN.exp > now + expires_in THEN _TOKEN.exp ELSE now + expires_in]

NewToken(access, now, expires_in) ==  \* lines 104-105
    [value |-> access, exp |-> now + expires_in]

\* _get_access_token from the answer r of the token endpoint to its return or
\* raise; `now` is the time it read at line 77, before the await.
\* An exception that is no HTTPException (r.json() or int() raising) leaves the
\* handler, and FastAPI answers 500.
_get_access_token_resume(now, r) ==
    IF r.status # 200
    THEN [k |-> "raise", token |-> None, status |-> 502, cache |-> _TOKEN]
    ELSE IF ~r.json
    THEN [k |-> "raise", token |-> None, status |-> 500, cache |-> _TOKEN]
    ELSE IF Falsy(r.access)
    THEN [k |-> "raise", token |-> None, status |-> 502, cache |-> _TOKEN]
    ELSE LET expires_in == int(Get(r.expires_in, [t |-> "int", v |-> DefaultExpiresIn]))
         IN  IF ~expires_in.ok
             THEN [k |-> "raise", token |-> None, status |-> 500, cache |-> _TOKEN]
             ELSE [k |-> "return", token |-> r.access, status |-> 0,
                   cache |-> NewToken(r.access, now, expires_in.val)]

----------------------------------------------------------------------------
(* Handler bodies after `token = await _get_access_token()` *)

HTTPError(code) ==                    \* FastAPI's answer to a raised exception
    [cls |-> "HTTPException", status |-> code, data |-> [detail |-> code]]

Out(pid, biz, uresp, resp) ==
    \* pid: what _effective_project_id gave; biz: upstream GETs issued;
    \* uresp: the upstream answer; resp: the handler's response
    [pid |-> pid, biz |-> biz, uresp |-> uresp, resp |-> resp]

search_register_forward(projectId, u) ==          \* lines 172-190
    LET pid == _effective_project_id(projectId)
    IN  IF ~pid.ok THEN Out(pid, 0, NoResponse, HTTPError(pid.status))
        ELSE Out(pid, 1, u, _as_json(u))

register_schema_forward(projectId, u) ==          \* lines 196-202
    LET pid == _effective_project_id(projectId)
    IN  IF ~pid.ok THEN Out(pid, 0, NoResponse, HTTPError(pid.status))
        ELSE Out(pid, 1, u, _as_json(u))

document_metadata_forward(projectId, u) ==        \* lines 210-216
    LET pid == _effective_project_id(projectId)
    IN  IF ~pid.ok THEN Out(pid, 0, NoResponse, HTTPError(pid.status))
        ELSE Out(pid, 1, u, _as_json(u))

Strip(ch) == IF ch = "\"doc123.pdf\"" THEN "doc123.pdf" ELSE ch   \* .strip("\"'; ")

AfterFilename(disp) ==                \* disp.split("filename=", 1)[1].strip(...)
    LET i == CHOOSE i \in 1..Len(disp) :
                 /\ disp[i] = "filename="
                 /\ \A j \in 1..(i - 1) : disp[j] # "filename="
    IN  IF i = Len(disp) THEN "" ELSE Strip(disp[i + 1])

StreamingResponse(content, media, fname) ==       \* status_code defaults to 200
    [cls |-> "StreamingResponse", status |-> 200,
     data |-> [content |-> content, media |-> media, filename |-> fname]]

download_file_forward(projectId, documentId, u) ==   \* lines 224-243
    LET pid == _effective_project_id(projectId)
        disp == OrEmpty(u.disp)
        fname == IF Contains(<< "filename=" >>, disp) THEN AfterFilename(disp) ELSE None
        media == IF OrEmpty(u.ctype) # << >> THEN u.ctype.v
                 ELSE << "application/octet-stream" >>
    IN  IF ~pid.ok THEN Out(pid, 0, NoResponse, HTTPError(pid.status))
        ELSE Out(pid, 1, u,
                 StreamingResponse(u.text, media,
                     IF ~Falsy(fname) THEN [name |-> fname, ext |-> ""]
                     ELSE [name |-> documentId, ext |-> ".bin"]))

NotResolved == [ok |-> FALSE, val |-> None, status |-> 0]

debug_token_ok(t, cache) ==                       \* lines 148-152
    Out(NotResolved, 0, NoResponse,
        [cls |-> "dict", status |-> 200,
         data |-> [ok |-> TRUE, token_prefix |-> t, expires_in_sec |-> cache.exp - clock]])

debug_token_except(code) ==                       \* lines 153-156
    Out(NotResolved, 0, NoResponse,
        JSONResponse([ok |-> FALSE, status |-> code], 200))

Ops == { "search_register", "register_schema", "document_metadata",
         "download_file", "debug_token" }
BusinessOps == Ops \ { "debug_token" }

\* The rest of handler `op` once _get_access_token returned token t; `cache` is
\* the cache as that call left it.
Forward(op, projectId, documentId, t, cache, u) ==
    CASE op = "search_register"   -> search_register_forward(projectId, u)
      [] op = "register_schema"   -> register_schema_forward(projectId, u)
      [] op = "document_metadata" -> document_metadata_forward(projectId, u)
      [] op = "download_file"     -> download_file_forward(projectId, documentId, u)
      [] op = "debug_token"       -> debug_token_ok(t, cache)

\* The response when _get_access_token raised with status `code`.
Failed(op, code) ==
    IF op = "debug_token" THEN debug_token_except(code)
    ELSE Out(NotResolved, 0, NoResponse, HTTPError(code))

----------------------------------------------------------------------------
(* State *)

ProjectIds == { None, "", "P1" }      \* the projectId query parameter
DefaultProjectIds == { None, "", "D1" }
DocumentIds == { "", "doc9" }         \* the documentId query parameter

\* A suspended handler: its parameters and the time it read at line 77.
Suspended(op, projectId, documentId, now) ==
    [op |-> op, projectId |-> projectId, documentId |-> documentId, now |-> now]

Pending == [cls |-> "pending", status |-> 0, data |-> [detail |-> 0]]
Nothing == Out(NotResolved, 0, NoResponse, Pending)

\* What a step did: k is "enter" (a handler ran from its start), "resume" (a
\* handler ran on from the await), "tick" or "init"; pre is the cache before the
\* step; called says whether the handler called _get_access_token, now is the
\* time that call read, reqs the token requests the handler has issued, tresp
\* the token endpoint's answer the step consumed, token what _get_access_token
\* returned, raised the status _get_access_token raised (0: none), out the rest
\* of the handler (Out).
Event(k, op, projectId, documentId, called, now, reqs, tresp, token, raised, out) ==
    [k |-> k, op |-> op, projectId |-> projectId, documentId |-> documentId,
     pre |-> _TOKEN, called |-> called, now |-> now, reqs |-> reqs, tresp |-> tresp,
     token |-> token, raised |-> raised, out |-> out]

NoEvent(k) == Event(k, "", None, "", FALSE, 0, 0, NoTokenResponse, None, 0, Nothing)

config == << DEFAULT_PROJECT_ID, ACONEX_CLIENT_ID, ACONEX_CLIENT_SECRET >>

\* A refresh: the token the endpoint granted, the lifetime it gave, and the
\* time the refreshing call had read at line 77.
NoRefresh == [access |-> None, now |-> 0, expires_in |-> NoField]

Fresh ==
    /\ _TOKEN = [value |-> None, exp |-> 0]            \* line 73
    /\ clock = StartTime
    /\ calls = EmptyBag
    /\ issued = 0
    /\ lastRefresh = NoRefresh
    /\ validatedAt = [at |-> 0, by |-> "none"]
    /\ ev = NoEvent("init")

----------------------------------------------------------------------------
(* Steps *)

\* `token = await _get_access_token()` and what follows it, up to the response
\* or to the await inside _get_access_token.
Enter(op, projectId, documentId, u) ==
    LET now == clock                                   \* line 77
        t == _get_access_token(now)
    IN  /\ CASE t.k = "return" ->
                  /\ ev' = Event("enter", op, projectId, documentId, TRUE, now, 0,
                                 NoTokenResponse, t.token, 0,
                                 Forward(op, projectId, documentId, t.token, _TOKEN, u))
                  /\ validatedAt' = [at |-> now, by |-> "reuse"]
                  /\ UNCHANGED calls
             [] t.k = "raise" ->
                  /\ ev' = Event("enter", op, projectId, documentId, TRUE, now, 0,
                                 NoTokenResponse, None, t.status, Failed(op, t.status))
                  /\ UNCHANGED << calls, validatedAt >>
             [] t.k = "await" ->                       \* lines 88-93: the POST is sent
                  /\ calls' = calls (+) SetToBag({ Suspended(op, projectId, documentId, now) })
                  /\ ev' = Event("enter", op, projectId, documentId, TRUE, now, 1,
                                 NoTokenResponse, None, 0, Nothing)
                  /\ UNCHANGED validatedAt
        /\ UNCHANGED << config, _TOKEN, clock, issued, lastRefresh >>

\* A handler that raises before it calls anything.
Reject(op, projectId, documentId, code) ==
    /\ ev' = Event("enter", op, projectId, documentId, FALSE, 0, 0,
                   NoTokenResponse, None, 0,
                   Out(NotResolved, 0, NoResponse, HTTPError(code)))
    /\ UNCHANGED << config, _TOKEN, clock, calls, issued, lastRefresh, validatedAt >>

search_register(projectId, u) ==                       \* lines 164-190
    Enter("search_register", projectId, "", u)

register_schema(projectId, u) ==                       \* lines 194-202
    Enter("register_schema", projectId, "", u)

\* Variant: documentId is not checked before the token is fetched.
document_metadata_unchecked(projectId, documentId, u) ==
    Enter("document_metadata", projectId, documentId, u)

document_metadata(projectId, documentId, u) ==         \* lines 206-216
    IF documentId = ""
    THEN Reject("document_metadata", projectId, documentId, 400)
    ELSE Enter("document_metadata", projectId, documentId, u)

download_file(projectId, documentId, u) ==             \* lines 220-243
    IF documentId = ""
    THEN Reject("download_file", projectId, documentId, 400)
    ELSE Enter("download_file", projectId, documentId, u)

debug_token ==                                         \* lines 145-156
    Enter("debug_token", None, "", NoResponse)

\* The token endpoint answers the POST of the suspended handler `me` with r; the
\* handler runs on to its response (u is the upstream answer to its GET, if it
\* issues one).
TokenResponse(me, r, u) ==
    LET t == _get_access_token_resume(me.now, r)
    IN  /\ BagIn(me, calls)
        /\ _TOKEN' = t.cache
        /\ issued' = IF ~Falsy(r.access) THEN issued + 1 ELSE issued
        /\ lastRefresh' = IF t.k = "return"
                          THEN [access |-> r.access, now |-> me.now,
                                expires_in |-> r.expires_in]
                          ELSE lastRefresh
        /\ validatedAt' = IF t.k = "return" THEN [at |-> me.now, by |-> "refresh"]
                          ELSE validatedAt
        /\ calls' = calls (-) SetToBag({ me })
        /\ ev' = Event("resume", me.op, me.projectId, me.documentId, TRUE, me.now, 1,
                       r, t.token, t.status,
                       IF t.k = "return"
                       THEN Forward(me.op, me.projectId, me.documentId, t.token, t.cache, u)
                       ELSE Failed(me.op, t.status))
        /\ UNCHANGED << config, clock >>

Tick(dt) ==                                            \* time passes
    /\ TicksUsed < MaxTicks
    /\ clock' = clock + dt
    /\ ev' = NoEvent("tick")
    /\ UNCHANGED << config, _TOKEN, calls, issued, lastRefresh, validatedAt >>

ResponsesFor(op, U, DU) ==
    IF op = "download_file" THEN DU
    ELSE IF op = "debug_token" THEN { NoResponse }
    ELSE U

\* A request arrives while fewer than K are in flight, with parameters from P
\* and D; U and DU are the upstream's possible answers to the GET.
Serve(K, P, D, U, DU) ==
    /\ BagCardinality(calls) < K
    /\ \/ \E p \in P, u \in U : search_register(p, u)
       \/ \E p \in P, u \in U : register_schema(p, u)
       \/ \E p \in P, d \in D, u \in U : document_metadata(p, d, u)
       \/ \E p \in P, d \in D, u \in DU : download_file(p, d, u)
       \/ debug_token

\* The token endpoint answers one of the pending POSTs, with an answer among T.
Answer(T, U, DU) ==
    \E me \in BagToSet(calls) :
      \E r \in TokenResponses(TokenNames[issued + 1]) \cap T,
         u \in ResponsesFor(me.op, U, DU) :
          /\ ~Falsy(r.access) => issued < MaxTokens
          /\ TokenResponse(me, r, u)

AnyTokenResponse ==
    UNION { TokenResponses(TokenNames[i]) : i \in 1..Len(TokenNames) }

----------------------------------------------------------------------------
(* The token cache under concurrent requests: up to NumCalls handlers in   *)
(* flight, every answer of the token endpoint, every configuration of the  *)
(* credentials.  The requests have valid parameters and go to              *)
(* search_register (register_schema and document_metadata run the same     *)
(* statements from the await on), download_file and debug_token.           *)

OneResponse == { r \in UpstreamResponses : r.status = 200 }
OneDownload == { r \in DownloadResponses : r.status = 200 }

Init ==
    /\ DEFAULT_PROJECT_ID = None
    /\ ACONEX_CLIENT_ID \in { "", "client" }
    /\ ACONEX_CLIENT_SECRET \in { "", "secret" }
    /\ Fresh

Next ==
    \/ /\ BagCardinality(calls) < NumCalls
       /\ \/ \E u \in OneResponse : search_register("P1", u)
          \/ \E u \in OneDownload : download_file("P1", "doc9", u)
          \/ debug_token
    \/ Answer(AnyTokenResponse, OneResponse, OneDownload)
    \/ \E dt \in TickSteps : Tick(dt)

Spec == Init /\ [][Next]_vars

----------------------------------------------------------------------------
(* The five handlers one request at a time: every request parameter, every *)
(* configured default project, every upstream answer to the GET, every     *)
(* answer of the token endpoint.                                           *)

InitFlow ==
    /\ DEFAULT_PROJECT_ID \in DefaultProjectIds
    /\ ACONEX_CLIENT_ID = "client"
    /\ ACONEX_CLIENT_SECRET = "secret"
    /\ Fresh

NextFlow ==
    \/ Serve(1, ProjectIds, DocumentIds, UpstreamResponses, DownloadResponses)
    \/ Answer(AnyTokenResponse, UpstreamResponses, DownloadResponses)
    \/ \E dt \in TickSteps : Tick(dt)

SpecFlow == InitFlow /\ [][NextFlow]_vars

----------------------------------------------------------------------------
(* The response normaliser alone, on every header with every body.         *)

Normalize(u) ==
    /\ ev' = Event("normalize", "", None, "", FALSE, 0, 0, NoTokenResponse, None, 0,
                   Out(NotResolved, 0, u, _as_json(u)))
    /\ UNCHANGED << config, _TOKEN, clock, calls, issued, lastRefresh, validatedAt >>

InitNormalizer ==
    /\ DEFAULT_PROJECT_ID = None
    /\ ACONEX_CLIENT_ID = "client"
    /\ ACONEX_CLIENT_SECRET = "secret"
    /\ Fresh

NextNormalizer == \E u \in NormalizerInputs : Normalize(u)

SpecNormalizer == InitNormalizer /\ [][NextNormalizer]_vars

----------------------------------------------------------------------------
(* Properties *)

Entered == ev.k = "enter" /\ ev.called       \* a handler just called _get_access_token
Resumed == ev.k = "resume"                   \* a handler just ran on from the await
Reusable == ev.pre.value # None /\ ev.pre.exp - ev.now > 60
Configured == ACONEX_CLIENT_ID # "" /\ ACONEX_CLIENT_SECRET # ""
Issued == { TokenNames[i] : i \in 1..issued }

\* The lifetime the token endpoint stated, in whole seconds.
Lifetime(e) ==
    CASE e.t = "absent" -> 1800
      [] e.t = "int"    -> e.v
      [] e.t = "float"  -> e.v \div 10

\* C1: a call of _get_access_token that finds a cached token expiring more
\* than 60 seconds after the current time returns that token, issues no token
\* request and leaves the cache as it was.
C1_TokenReuse ==
    (Entered /\ Reusable) =>
        /\ ev.token = ev.pre.value
        /\ ev.reqs = 0
        /\ _TOKEN = ev.pre

C1_Witness ==
    /\ Entered /\ Reusable
    /\ ev.pre.exp - ev.now = 61
    /\ ev.token = ev.pre.value

\* C2 as stated: a call that finds no cached token, or one expiring within 60
\* seconds, issues exactly one token request, and on return the cache holds the
\* returned token with expiry = time read at the start + expires_in (1800 when
\* absent).  The comparison is in tenths of a second.
C2_AsStated ==
    /\ (Entered /\ ~Reusable) => ev.reqs = 1
    /\ (Resumed /\ ev.token # None) =>
           /\ _TOKEN.value = ev.token
           /\ 10 * _TOKEN.exp =
                  10 * ev.now + (IF ev.tresp.expires_in.t = "float"
                                 THEN ev.tresp.expires_in.v
                                 ELSE 10 * Lifetime(ev.tresp.expires_in))

\* C2 amended: with the client id and secret configured, such a call issues
\* exactly one token request (none, and fails with 500, when they are not);
\* when it returns a token, that token is the one the endpoint granted and the
\* cache holds it with expiry = time read at the start + int(expires_in), 1800
\* when absent.
C2_TokenRefresh ==
    /\ (Entered /\ ~Reusable) =>
           IF Configured
           THEN ev.reqs = 1 /\ ev.out.resp.status = 0 /\ _TOKEN = ev.pre
           ELSE ev.reqs = 0 /\ ev.raised = 500 /\ _TOKEN = ev.pre
    /\ Resumed => ev.reqs = 1
    /\ (Resumed /\ ev.token # None) =>
           /\ ev.token = ev.tresp.access
           /\ _TOKEN = [value |-> ev.token,
                        exp |-> ev.now + Lifetime(ev.tresp.expires_in)]

C2_Witness ==
    /\ Resumed /\ ev.token # None
    /\ ev.tresp.expires_in = NoField
    /\ clock > ev.now
    /\ _TOKEN = [value |-> ev.token, exp |-> ev.now + 1800]

\* C3 as stated: the cached value is non-absent only if its expiry was in the
\* future at the time the cache was last read-validated.
C3_AsStated ==
    _TOKEN.value # None => _TOKEN.exp > validatedAt.at

\* C3 amended: the cache starts empty and holds at most one token, one the
\* endpoint granted.  While it holds one: if a read accepted it for reuse, its
\* expiry was more than 60 seconds in the future at the last such read;
\* otherwise it is as the refresh that stored it left it, with expiry = the
\* time that refresh read + int(expires_in), which is in the future of that
\* time exactly when expires_in is positive.
C3_CachedToken ==
    /\ ev.k = "init" => _TOKEN = [value |-> None, exp |-> 0]
    /\ _TOKEN.value = None => validatedAt.by = "none"
    /\ _TOKEN.value # None =>
           /\ _TOKEN.value \in Issued
           /\ validatedAt.by \in { "reuse", "refresh" }
           /\ validatedAt.by = "reuse" => _TOKEN.exp - validatedAt.at > 60
           /\ validatedAt.by = "refresh" =>
                  /\ validatedAt.at = lastRefresh.now
                  /\ _TOKEN.exp = validatedAt.at + Lifetime(lastRefresh.expires_in)
                  /\ (_TOKEN.exp > validatedAt.at) <=> (Lifetime(lastRefresh.expires_in) > 0)

C3_Witness ==
    /\ _TOKEN.value # None
    /\ validatedAt.by = "reuse"
    /\ validatedAt.at > lastRefresh.now

\* C4: document_metadata and download_file with an empty documentId answer 400
\* without calling _get_access_token, without a token request, without an
\* upstream GET, and leave the cache as it was.
C4_MissingDocumentId ==
    (ev.k = "enter" /\ ev.op \in { "document_metadata", "download_file" }
                    /\ ev.documentId = "") =>
        /\ ev.out.resp.status = 400
        /\ ~ev.called
        /\ ev.reqs = 0
        /\ ev.out.biz = 0
        /\ _TOKEN = ev.pre

C4_Witness ==
    /\ ev.k = "enter" /\ ev.op = "document_metadata" /\ ev.documentId = ""
    /\ ev.projectId = None /\ DEFAULT_PROJECT_ID = None
    /\ ev.pre.value # None
    /\ ev.out.resp.status = 400

\* C5 as stated: when the upstream GET of any of the four operations answers
\* with a status outside 200..299, the handler's response carries that status.
C5_StatusPreserved ==
    (ev.out.biz = 1 /\ ev.out.uresp.status \notin 200..299) =>
        ev.out.resp.status = ev.out.uresp.status

\* C6 as stated: when the token endpoint answers with a status other than
\* 200, or with a 200 body that has no access_token, _get_access_token raises
\* 502, the handler issues no upstream GET and the cache stays as it was.
C6_TokenEndpointFailure ==
    (Resumed /\ (ev.tresp.status # 200 \/ Falsy(ev.tresp.access))) =>
        /\ ev.raised = 502
        /\ ev.out.biz = 0
        /\ _TOKEN = ev.pre

\* C7: _effective_project_id returns the request's projectId when it is
\* present and non-empty, whatever the default; else the configured default
\* when that is set and non-empty; else raises 400.  The step that only
\* resolves (the token came from the cache) leaves the cache as it was.
C7_ProjectResolution ==
    (ev.out.pid # NotResolved) =>
        /\ IF ev.projectId \notin { None, "" }
           THEN ev.out.pid = Ok(ev.projectId)
           ELSE IF DEFAULT_PROJECT_ID \notin { None, "" }
           THEN ev.out.pid = Ok(DEFAULT_PROJECT_ID)
           ELSE ev.out.pid = Raise(400) /\ ev.out.resp.status = 400 /\ ev.out.biz = 0
        /\ ev.k = "enter" => _TOKEN = ev.pre

C7_Witness ==
    /\ ev.projectId = "P1"
    /\ DEFAULT_PROJECT_ID = "D1"
    /\ ev.out.pid = Ok("P1")

\* C8: the normaliser produces exactly one outcome for every header and body
\* and never raises: with a Content-Type containing application/json in any
\* case, the parsed JSON, or {"raw": text} when the body is no JSON; otherwise
\* the XML mapping when the body is XML; otherwise the body as plain text.
JsonTypes ==
    { Hdr(<< "application/json" >>),
      Hdr(<< "Application/JSON", "; charset=utf-8" >>),
      Hdr(<< "text/html", "; x=", "application/json" >>) }

C9_BenignRace ==
    /\ ev.token # None => ev.token \in Issued
    /\ _TOKEN.value = None => _TOKEN.exp = 0 /\ lastRefresh = NoRefresh
    /\ _TOKEN.value # None =>
           /\ _TOKEN.value = lastRefresh.access
           /\ _TOKEN.exp = lastRefresh.now + Lifetime(lastRefresh.expires_in)

\* Two refreshes raced: this one overwrites a token a concurrent refresh
\* stored after this call had started, and which was still good.
C9_Witness ==
    /\ Resumed /\ ev.token # None
    /\ ev.pre.value \in Issued \ { ev.token }
    /\ ev.pre.exp - clock > 60
    /\ _TOKEN.value = ev.token
    /\ _TOKEN.exp < ev.pre.exp

\* C10 as stated: a request to a business endpoint with no projectId and no
\* configured default answers 400 without a token request and without
\* touching the cache.
C10_ResolveBeforeToken ==
    (ev.k \in { "enter", "resume" } /\ ev.op \in BusinessOps
        /\ ev.projectId \in { None, "" } /\ DEFAULT_PROJECT_ID \in { None, "" }) =>
        /\ ev.out.resp.status = 400
        /\ ev.reqs = 0
        /\ _TOKEN = ev.pre

====
